---- MODULE Spec2Model ----
(***************************************************************************)
(* A model of nixdoc's extraction engine (src/main.rs): the comment        *)
(* locator, the doc-comment parser, the indentation normaliser, the        *)
(* parameter collector and the entry collector.                            *)
(*                                                                         *)
(* Text is a sequence of one-character strings; a token is a record of a   *)
(* SyntaxKind and its text; Option<T> is None or Some(v).                  *)
(***************************************************************************)
EXTENDS Integers, Sequences, FiniteSets, TLC

VARIABLES
    mode,          \* which entry point of the program this behaviour runs
    pc,            \* position inside that entry point
    raw,           \* handle_indentation / parse_doc_comment: the argument `raw`
    normalized,    \* handle_indentation(raw)
    renormalized,  \* handle_indentation applied to the text of `normalized`
    comment,       \* parse_doc_comment(raw): the DocComment
    tokens,        \* retrieve_doc_comment: the tokens of the file before the node
    allow_line_comments,  \* retrieve_doc_comment: the argument of that name
    located,       \* retrieve_doc_comment(node, allow_line_comments)
    lambda,        \* collect_lambda_args: the argument `lambda`
    collected,     \* collect_lambda_args(lambda): the arguments, or a panic
    root,          \* collect_entries: the node the walk over the file stops at
    header,        \* the children of the let-in scanned so far
    children,      \* the children of the attribute set scanned so far
    scope,         \* collect_entries: the HashMap built from the let-in
    entries        \* collect_bindings: the Vec `entries`

textVars == <<raw, normalized, renormalized, comment>>

locatorVars == <<tokens, allow_line_comments, located>>

lambdaVars == <<lambda, collected>>

treeVars == <<root, header, children, scope, entries>>

vars == <<mode, pc, textVars, locatorVars, lambdaVars, treeVars>>

(***************************************************************************)
(* Bounds                                                                  *)
(***************************************************************************)
MaxRawLen == 6

MaxSegments == 6

MaxTokens == 5

MaxCurry == 2

MaxPatEntries == 2

MaxLetBindings == 2

MaxSetChildren == 2

(***************************************************************************)
(* Option<T>                                                               *)
(***************************************************************************)
None == [some |-> FALSE]

Some(v) == [some |-> TRUE, val |-> v]

IsSome(o) == o.some

(***************************************************************************)
(* Text: char-level operations of std::str used by the program             *)
(***************************************************************************)
NL == "\n"

\* char::is_whitespace, over the characters of the model's alphabet
IsWhitespace(c) == c \in {" ", "\n", "\t", "\r"}

SeqsUpTo(S, n) == UNION {[1..k -> S] : k \in 0..n}

RECURSIVE TrimStart(_)
TrimStart(s) ==
    IF s = <<>> THEN <<>>
    ELSE IF IsWhitespace(Head(s)) THEN TrimStart(Tail(s))
    ELSE s

RECURSIVE TrimEnd(_)
TrimEnd(s) ==
    IF s = <<>> THEN <<>>
    ELSE IF IsWhitespace(s[Len(s)]) THEN TrimEnd(SubSeq(s, 1, Len(s) - 1))
    ELSE s

\* str::trim
Trim(s) == TrimEnd(TrimStart(s))

\* str::starts_with
StartsWith(s, p) == Len(p) <= Len(s) /\ SubSeq(s, 1, Len(p)) = p

\* str::strip_prefix: Some(rest) or None
StripPrefix(s, p) ==
    IF StartsWith(s, p) THEN Some(SubSeq(s, Len(p) + 1, Len(s))) ELSE None

\* str::contains
Contains(s, p) ==
    \E i \in 1..(Len(s) - Len(p) + 1) : SubSeq(s, i, i + Len(p) - 1) = p

\* index of the first c in s, 0 when there is none
RECURSIVE FindFrom(_, _, _)
FindFrom(s, c, i) ==
    IF i > Len(s) THEN 0
    ELSE IF s[i] = c THEN i
    ELSE FindFrom(s, c, i + 1)

Find(s, c) == FindFrom(s, c, 1)

\* str::split_once('\n'): None, or Some(<<first, rest>>)
SplitOnce(s) ==
    LET i == Find(s, NL)
    IN  IF i = 0 THEN None
        ELSE Some(<<SubSeq(s, 1, i - 1), SubSeq(s, i + 1, Len(s))>>)

\* str::lines: split at '\n'; a final empty piece is not a line
RECURSIVE Lines(_)
Lines(s) ==
    IF s = <<>> THEN <<>>
    ELSE LET i == Find(s, NL)
         IN  IF i = 0 THEN <<s>>
             ELSE <<SubSeq(s, 1, i - 1)>> \o Lines(SubSeq(s, i + 1, Len(s)))

\* str::split_inclusive('\n'): the lines with their terminators kept
RECURSIVE SplitInclusive(_)
SplitInclusive(s) ==
    IF s = <<>> THEN <<>>
    ELSE LET i == Find(s, NL)
         IN  IF i = 0 THEN <<s>>
             ELSE <<SubSeq(s, 1, i)>> \o SplitInclusive(SubSeq(s, i + 1, Len(s)))

(***************************************************************************)
(* textwrap::dedent, as called by handle_indentation                       *)
(***************************************************************************)
\* the byte index of the first non-whitespace char of line, Len(line) if none
RECURSIVE WhitespaceIdx(_, _)
WhitespaceIdx(line, i) ==
    IF i > Len(line) THEN Len(line)
    ELSE IF ~IsWhitespace(line[i]) THEN i - 1
    ELSE WhitespaceIdx(line, i + 1)

HasNonWhitespace(line) == \E i \in 1..Len(line) : ~IsWhitespace(line[i])

\* first loop of dedent: the leading whitespace of the first line that is not
\* blank, and the lines left after it
RECURSIVE FirstPrefix(_)
FirstPrefix(lines) ==
    IF lines = <<>> THEN [prefix |-> <<>>, rest |-> <<>>]
    ELSE LET idx == WhitespaceIdx(Head(lines), 1)
         IN  IF idx < Len(Head(lines))
             THEN [prefix |-> SubSeq(Head(lines), 1, idx), rest |-> Tail(lines)]
             ELSE FirstPrefix(Tail(lines))

\* the zip of line and prefix: index of the first mismatch, Len(line) if none
RECURSIVE MismatchIdx(_, _, _)
MismatchIdx(line, prefix, i) ==
    IF i > Len(line) \/ i > Len(prefix) THEN Len(line)
    ELSE IF line[i] # prefix[i] THEN i - 1
    ELSE MismatchIdx(line, prefix, i + 1)

\* second loop of dedent: the remaining lines shorten the prefix
RECURSIVE ShortenPrefix(_, _)
ShortenPrefix(prefix, lines) ==
    IF lines = <<>> THEN prefix
    ELSE LET idx == MismatchIdx(Head(lines), prefix, 1)
         IN  ShortenPrefix(IF idx < Len(Head(lines))
                           THEN SubSeq(Head(lines), 1, idx)
                           ELSE prefix,
                           Tail(lines))

\* third loop of dedent: every line, cut or emptied, followed by '\n'
RECURSIVE DedentLines(_, _)
DedentLines(lines, prefix) ==
    IF lines = <<>> THEN <<>>
    ELSE (IF StartsWith(Head(lines), prefix) /\ HasNonWhitespace(Head(lines))
          THEN SubSeq(Head(lines), Len(prefix) + 1, Len(Head(lines)))
          ELSE <<>>)
         \o <<NL>> \o DedentLines(Tail(lines), prefix)

dedent(s) ==
    LET lines  == Lines(s)
        first  == FirstPrefix(lines)
        prefix == ShortenPrefix(first.prefix, first.rest)
        result == DedentLines(lines, prefix)
    IN  IF result # <<>> /\ result[Len(result)] = NL
           /\ ~(s # <<>> /\ s[Len(s)] = NL)
        THEN SubSeq(result, 1, Len(result) - 1)
        ELSE result

(***************************************************************************)
(* handle_indentation                                                      *)
(***************************************************************************)
\* handle_indentation with dedent given all of `raw` instead of `rest`
handle_indentation_DedentsRaw(s) ==
    LET split  == SplitOnce(s)
        result == IF IsSome(split)
                  THEN Trim(split.val[1]) \o <<NL>> \o dedent(s)
                  ELSE s
        trimmed == Trim(result)
    IN  IF trimmed = <<>> THEN None ELSE Some(trimmed)

handle_indentation(s) ==
    LET split  == SplitOnce(s)
        result == IF IsSome(split)
                  THEN Trim(split.val[1]) \o <<NL>> \o dedent(split.val[2])
                  ELSE s
        trimmed == Trim(result)
    IN  IF trimmed = <<>> THEN None ELSE Some(trimmed)

(***************************************************************************)
(* The parts of the state an entry point does not use                      *)
(***************************************************************************)
TextIdle ==
    /\ raw = <<>>
    /\ normalized = None
    /\ renormalized = None
    /\ comment = None

LocatorIdle ==
    /\ tokens = <<>>
    /\ allow_line_comments = FALSE
    /\ located = None

LambdaIdle ==
    /\ lambda = None
    /\ collected = None

TreeIdle ==
    /\ root = None
    /\ header = <<>>
    /\ children = <<>>
    /\ scope = <<>>
    /\ entries = <<>>

(***************************************************************************)
(* The normaliser run on its own: handle_indentation on a raw text, and    *)
(* again on what it returned.                                              *)
(***************************************************************************)
RawAlphabet == {"a", " ", "\t", "\n"}

InitNormalizer ==
    /\ mode = "handle_indentation"
    /\ pc = "call"
    /\ raw \in SeqsUpTo(RawAlphabet, MaxRawLen)
    /\ normalized = None
    /\ renormalized = None
    /\ comment = None
    /\ LocatorIdle
    /\ LambdaIdle
    /\ TreeIdle

Normalize ==
    /\ mode = "handle_indentation"
    /\ pc = "call"
    /\ normalized' = handle_indentation(raw)
    /\ pc' = "returned"
    /\ UNCHANGED <<mode, raw, renormalized, comment, locatorVars, lambdaVars, treeVars>>

Renormalize ==
    /\ mode = "handle_indentation"
    /\ pc = "returned"
    /\ IsSome(normalized)
    /\ renormalized' = handle_indentation(normalized.val)
    /\ pc' = "again"
    /\ UNCHANGED <<mode, raw, normalized, comment, locatorVars, lambdaVars, treeVars>>

NextNormalizer == Normalize \/ Renormalize

SpecNormalizer == InitNormalizer /\ [][NextNormalizer]_vars

\* the first line of s (all of s when it has no newline)
FirstLine(s) == IF IsSome(SplitOnce(s)) THEN SplitOnce(s).val[1] ELSE s

\* the whitespace characters other than the line terminator that s holds
IndentChars(s) == {s[i] : i \in 1..Len(s)} \cap {" ", "\t", "\r"}

\* C3 as stated: handle_indentation is idempotent: whenever
\* handle_indentation(s) returns some text t, handle_indentation(t) returns t.
C3_Idempotent ==
    pc = "again" => renormalized = normalized

\* C3 amended: handle_indentation(t) returns t again for every input whose
\* first line holds a non-whitespace character and whose indentation is made
\* of one kind of whitespace character.
C3_IdempotentFromTextFirstLine ==
    (/\ pc = "again"
     /\ HasNonWhitespace(FirstLine(raw))
     /\ Cardinality(IndentChars(raw)) <= 1)
        => renormalized = normalized

\* C3 witness: an indented multi-line text starting with text was normalised
\* (its later lines dedented) and normalised again.
C3_Witness ==
    /\ pc = "again"
    /\ HasNonWhitespace(FirstLine(raw))
    /\ Cardinality(IndentChars(raw)) <= 1
    /\ Contains(raw, <<NL, " ">>)
    /\ Contains(normalized.val, <<NL>>)
    /\ ~Contains(normalized.val, <<NL, " ">>)
    /\ renormalized = normalized

(***************************************************************************)
(* parse_doc_comment                                                       *)
(***************************************************************************)
TypeKeyword == <<"T", "y", "p", "e", ":">>

ExampleKeyword == <<"E", "x", "a", "m", "p", "l", "e", ":">>

\* the loop body of parse_doc_comment with a blank line ending the section
\* it stands in: the lines after it are read as description again
RECURSIVE ParseLines_BlankLineEndsSection(_, _, _, _, _)
ParseLines_BlankLineEndsSection(lines, state, doc_str, type_str, example_str) ==
    IF lines = <<>>
    THEN [doc_str |-> doc_str, type_str |-> type_str, example_str |-> example_str]
    ELSE LET line         == Head(lines)
             trimmed_line == Trim(line)
             type_suffix  == StripPrefix(trimmed_line, TypeKeyword)
             ex_suffix    == StripPrefix(trimmed_line, ExampleKeyword)
         IN  IF IsSome(type_suffix)
             THEN ParseLines_BlankLineEndsSection(Tail(lines), "Type", doc_str,
                      type_str \o type_suffix.val \o <<NL>>, example_str)
             ELSE IF IsSome(ex_suffix)
             THEN ParseLines_BlankLineEndsSection(Tail(lines), "Example", doc_str,
                      type_str, example_str \o ex_suffix.val \o <<NL>>)
             ELSE IF trimmed_line = <<>>
             THEN ParseLines_BlankLineEndsSection(Tail(lines), "Doc",
                      doc_str \o line, type_str, example_str)
             ELSE CASE state = "Doc" ->
                         ParseLines_BlankLineEndsSection(Tail(lines), state,
                             doc_str \o line, type_str, example_str)
                    [] state = "Type" ->
                         ParseLines_BlankLineEndsSection(Tail(lines), state,
                             doc_str, type_str \o line, example_str)
                    [] state = "Example" ->
                         ParseLines_BlankLineEndsSection(Tail(lines), state,
                             doc_str, type_str, example_str \o line)

\* the loop of parse_doc_comment over raw.split_inclusive('\n'): `state` is
\* the ParseState, the three strings are the buffers
RECURSIVE ParseLines(_, _, _, _, _)
ParseLines(lines, state, doc_str, type_str, example_str) ==
    IF lines = <<>>
    THEN [doc_str |-> doc_str, type_str |-> type_str, example_str |-> example_str]
    ELSE LET line         == Head(lines)
             trimmed_line == Trim(line)
             type_suffix  == StripPrefix(trimmed_line, TypeKeyword)
             ex_suffix    == StripPrefix(trimmed_line, ExampleKeyword)
         IN  IF IsSome(type_suffix)
             THEN ParseLines(Tail(lines), "Type", doc_str,
                             type_str \o type_suffix.val \o <<NL>>, example_str)
             ELSE IF IsSome(ex_suffix)
             THEN ParseLines(Tail(lines), "Example", doc_str,
                             type_str, example_str \o ex_suffix.val \o <<NL>>)
             ELSE CASE state = "Doc" ->
                         ParseLines(Tail(lines), state,
                                    doc_str \o line, type_str, example_str)
                    [] state = "Type" ->
                         ParseLines(Tail(lines), state,
                                    doc_str, type_str \o line, example_str)
                    [] state = "Example" ->
                         ParseLines(Tail(lines), state,
                                    doc_str, type_str, example_str \o line)

\* Option::unwrap_or(String::new())
UnwrapOrEmpty(o) == IF IsSome(o) THEN o.val ELSE <<>>

parse_doc_comment(s) ==
    LET bufs == ParseLines(SplitInclusive(s), "Doc", <<>>, <<>>, <<>>)
    IN  [doc      |-> UnwrapOrEmpty(handle_indentation(bufs.doc_str)),
         doc_type |-> handle_indentation(bufs.type_str),
         example  |-> handle_indentation(bufs.example_str)]

(***************************************************************************)
(* The parser run on its own: parse_doc_comment on a raw comment text put  *)
(* together from keywords, text, blanks and line ends.                     *)
(***************************************************************************)
Segments == {TypeKeyword, ExampleKeyword, <<"a">>, <<" ">>, <<NL>>}

RECURSIVE Flatten(_)
Flatten(segs) == IF segs = <<>> THEN <<>> ELSE Head(segs) \o Flatten(Tail(segs))

InitParser ==
    /\ mode = "parse_doc_comment"
    /\ pc = "call"
    /\ raw \in {Flatten(segs) : segs \in SeqsUpTo(Segments, MaxSegments)}
    /\ normalized = None
    /\ renormalized = None
    /\ comment = None
    /\ LocatorIdle
    /\ LambdaIdle
    /\ TreeIdle

Parse ==
    /\ mode = "parse_doc_comment"
    /\ pc = "call"
    /\ comment' = Some(parse_doc_comment(raw))
    /\ pc' = "parsed"
    /\ UNCHANGED <<mode, raw, normalized, renormalized, locatorVars, lambdaVars, treeVars>>

NextParser == Parse

SpecParser == InitParser /\ [][NextParser]_vars

\* the lines of a raw comment, line terminators kept
RawLines == SplitInclusive(raw)

\* a trimmed line that starts a section
IsKeywordLine(line) ==
    \/ StartsWith(Trim(line), TypeKeyword)
    \/ StartsWith(Trim(line), ExampleKeyword)

\* the raw comment is a `Type:` line with a type text, a blank line, and
\* then body text (lines that start no section, one of them not blank)
TypeBlankBody ==
    /\ Len(RawLines) >= 3
    /\ StartsWith(Trim(RawLines[1]), TypeKeyword)
    /\ HasNonWhitespace(StripPrefix(Trim(RawLines[1]), TypeKeyword).val)
    /\ ~HasNonWhitespace(RawLines[2])
    /\ \A i \in 3..Len(RawLines) : ~IsKeywordLine(RawLines[i])
    /\ \E i \in 3..Len(RawLines) : HasNonWhitespace(RawLines[i])

\* the trimmed text that follows `Type:` on the first line
TypeText == Trim(StripPrefix(Trim(RawLines[1]), TypeKeyword).val)

\* C4 as stated: for a `Type:` line, a blank line and body text, doc_type is
\* the trimmed text after `Type:` and doc does not contain that text.
C4_TypeIsTheTypeLine ==
    (pc = "parsed" /\ TypeBlankBody) =>
        /\ comment.val.doc_type = Some(TypeText)
        /\ ~Contains(comment.val.doc, TypeText)

\* C4 amended: for a `Type:` line, a blank line and body text, doc_type
\* starts with the trimmed text after `Type:`, goes on with the empty line
\* and holds every body line; doc is empty and there is no example.
C4_TypeTakesTheBody ==
    (pc = "parsed" /\ TypeBlankBody) =>
        /\ IsSome(comment.val.doc_type)
        /\ StartsWith(comment.val.doc_type.val, TypeText \o <<NL, NL>>)
        /\ \A i \in 3..Len(RawLines) :
               Contains(comment.val.doc_type.val, Trim(RawLines[i]))
        /\ comment.val.doc = <<>>
        /\ comment.val.example = None

\* C4 witness: such a comment, with blanks around the type text, was parsed.
C4_Witness ==
    /\ pc = "parsed"
    /\ TypeBlankBody
    /\ StartsWith(raw, TypeKeyword \o <<" ">>)
    /\ IsSome(comment.val.doc_type)

(***************************************************************************)
(* retrieve_doc_comment                                                    *)
(*                                                                         *)
(* The file is the sequence of its tokens; a token is known by its index,  *)
(* prev_token() of token i is token i - 1, and None (written 0) for the    *)
(* first one. `first` is the index of node.first_token(), 0 when the node  *)
(* has no token.                                                           *)
(***************************************************************************)
Token(kind, text) == [kind |-> kind, text |-> text]

\* rnix Comment::text(): the token's text without its `#`, or without its
\* `/*` and `*/`
CommentText(token) ==
    IF StartsWith(token.text, <<"#">>)
    THEN SubSeq(token.text, 2, Len(token.text))
    ELSE SubSeq(token.text, 3, Len(token.text) - 2)

\* the step of both walks: prev_token(), and once more over a whitespace
\* token; 0 where a `?` returns None
PrevSkippingWhitespace(toks, t) ==
    IF t - 1 = 0 THEN 0
    ELSE IF toks[t - 1].kind = "TOKEN_WHITESPACE" THEN t - 2
    ELSE t - 1

\* Backtrack with the allow_line_comments flag not looked at
Backtrack_FlagIgnored(toks, t, allow) == t

\* the loop that backtracks to the first preceding multiline comment when
\* line comments are not allowed: the token it ends on, 0 for `return None`
RECURSIVE Backtrack(_, _, _)
Backtrack(toks, t, allow) ==
    IF ~allow /\ StartsWith(toks[t].text, <<"#">>)
    THEN LET p == PrevSkippingWhitespace(toks, t)
         IN  IF p = 0 THEN 0
             ELSE IF toks[p].kind # "TOKEN_COMMENT" THEN 0
             ELSE Backtrack(toks, p, allow)
    ELSE t

\* the loop that merges adjacent line comments, from token t backwards
RECURSIVE MergeLineComments(_, _, _)
MergeLineComments(toks, t, result) ==
    IF toks[t].kind # "TOKEN_COMMENT" THEN result
    ELSE IF ~StartsWith(toks[t].text, <<"#">>) THEN result
    ELSE LET merged == Trim(CommentText(toks[t])) \o result
         IN  IF t - 1 = 0 \/ toks[t - 1].kind # "TOKEN_WHITESPACE" THEN merged
             ELSE LET trail == StripPrefix(toks[t - 1].text, <<NL>>)
                  IN  IF IsSome(trail) /\ ~Contains(trail.val, <<NL>>)
                      THEN IF t - 2 = 0 THEN <<" ">> \o merged
                           ELSE MergeLineComments(toks, t - 2, <<" ">> \o merged)
                      ELSE merged

\* the first token looked at with the separating whitespace counted: a
\* comment more than a blank line away is not taken
FirstCandidate_GapChecked(toks, first) ==
    IF first = 0 \/ first - 1 = 0 THEN 0
    ELSE IF toks[first - 1].kind = "TOKEN_WHITESPACE"
         THEN IF Len(SelectSeq(toks[first - 1].text, LAMBDA c : c = NL)) > 2
              THEN 0
              ELSE first - 2
         ELSE first - 1

\* node.first_token()?.prev_token()?, and once more over a whitespace token
FirstCandidate(toks, first) ==
    IF first = 0 THEN 0 ELSE PrevSkippingWhitespace(toks, first)

retrieve_doc_comment(toks, first, allow) ==
    LET t1 == FirstCandidate(toks, first)
    IN  IF t1 = 0 THEN None
        ELSE IF toks[t1].kind # "TOKEN_COMMENT" THEN None
        ELSE LET t2 == Backtrack(toks, t1, allow)
             IN  IF t2 = 0 THEN None
                 ELSE IF StartsWith(toks[t2].text, <<"/", "*">>)
                      THEN Some(CommentText(toks[t2]))
                 ELSE IF StartsWith(toks[t2].text, <<"#">>)
                      THEN Some(MergeLineComments(toks, t2, <<>>))
                 ELSE None

(***************************************************************************)
(* The locator run on its own: retrieve_doc_comment on a node that follows *)
(* a sequence of tokens as the tokenizer produces them.                    *)
(***************************************************************************)
WhitespaceTokens ==
    {Token("TOKEN_WHITESPACE", text) :
        text \in {<<" ">>, <<NL, " ">>, <<NL, NL>>, <<NL, NL, NL>>}}

LineCommentTokens ==
    {Token("TOKEN_COMMENT", text) : text \in {<<"#", "a">>, <<"#", " ", "b", " ">>}}

BlockCommentTokens ==
    {Token("TOKEN_COMMENT", text) : text \in {<<"/", "*", "c", "*", "/">>}}

OtherTokens == {Token("TOKEN_IDENT", <<"x">>)}

Tokens == WhitespaceTokens \cup LineCommentTokens \cup BlockCommentTokens \cup OtherTokens

IsLineComment(token) ==
    token.kind = "TOKEN_COMMENT" /\ StartsWith(token.text, <<"#">>)

IsBlockComment(token) ==
    token.kind = "TOKEN_COMMENT" /\ StartsWith(token.text, <<"/", "*">>)

\* what the tokenizer can produce in front of a node: whitespace is one
\* token, and a line comment runs to the end of its line, so that the next
\* token is whitespace starting with the line end
Tokenized(toks) ==
    /\ \A i \in 1..(Len(toks) - 1) :
           ~(toks[i].kind = "TOKEN_WHITESPACE" /\ toks[i + 1].kind = "TOKEN_WHITESPACE")
    /\ \A i \in 1..Len(toks) :
           IsLineComment(toks[i]) =>
               /\ i < Len(toks)
               /\ toks[i + 1].kind = "TOKEN_WHITESPACE"
               /\ StartsWith(toks[i + 1].text, <<NL>>)

InitLocator ==
    /\ mode = "retrieve_doc_comment"
    /\ pc = "call"
    /\ tokens \in {toks \in SeqsUpTo(Tokens, MaxTokens) : Tokenized(toks)}
    /\ allow_line_comments = FALSE
    /\ located = None
    /\ TextIdle
    /\ LambdaIdle
    /\ TreeIdle

\* retrieve_doc_comment(node, allow) for the node that starts after `tokens`
Retrieve(allow) ==
    /\ mode = "retrieve_doc_comment"
    /\ pc = "call"
    /\ allow_line_comments' = allow
    /\ located' = retrieve_doc_comment(tokens, Len(tokens) + 1, allow)
    /\ pc' = "returned"
    /\ UNCHANGED <<mode, tokens, textVars, lambdaVars, treeVars>>

NextLocator == \E allow \in BOOLEAN : Retrieve(allow)

SpecLocator == InitLocator /\ [][NextLocator]_vars

\* the number of line ends in a text
Newlines(text) == Len(SelectSeq(text, LAMBDA c : c = NL))

\* the index of the token in front of the node once one whitespace token is
\* skipped (0: there is none)
Nearest ==
    IF tokens = <<>> THEN 0
    ELSE IF tokens[Len(tokens)].kind = "TOKEN_WHITESPACE" THEN Len(tokens) - 1
    ELSE Len(tokens)

\* the nearest preceding comment is more than a blank line above the node
FarComment ==
    /\ Len(tokens) >= 2
    /\ tokens[Len(tokens)].kind = "TOKEN_WHITESPACE"
    /\ Newlines(tokens[Len(tokens)].text) > 2
    /\ tokens[Len(tokens) - 1].kind = "TOKEN_COMMENT"

\* C1 as stated: a comment separated from the node by more than a blank line
\* (whitespace with more than two line ends) gives no result, whatever
\* allow_line_comments is.
C1_FarCommentGivesNothing ==
    (pc = "returned" /\ FarComment) => located = None

\* C1 amended: retrieve_doc_comment returns nothing, whatever
\* allow_line_comments is, when the token in front of the node, one
\* whitespace token skipped, is missing or is no comment; the line ends of
\* the skipped whitespace are not counted, so that a block comment more than
\* a blank line above the node is returned all the same.
C1_NothingWithoutCommentInFront ==
    pc = "returned" =>
        /\ (Nearest = 0 \/ tokens[Nearest].kind # "TOKEN_COMMENT") => located = None
        /\ (FarComment /\ IsBlockComment(tokens[Nearest])) =>
               located = Some(CommentText(tokens[Nearest]))

\* C1 witness: a block comment, three line ends, then the node: the comment
\* was returned.
C1_Witness ==
    /\ pc = "returned"
    /\ FarComment
    /\ IsBlockComment(tokens[Nearest])
    /\ IsSome(located)

\* the first comment of the run of line comments on consecutive lines that
\* ends at token t
RECURSIVE RunFirst(_, _)
RunFirst(toks, t) ==
    IF /\ t - 2 >= 1
       /\ toks[t - 1].kind = "TOKEN_WHITESPACE"
       /\ Newlines(toks[t - 1].text) = 1
       /\ IsLineComment(toks[t - 2])
    THEN RunFirst(toks, t - 2)
    ELSE t

\* the trimmed contents of the comments from..to of a run, in source order,
\* with one space between two of them
RECURSIVE JoinRun(_, _, _)
JoinRun(toks, from, to) ==
    IF from = to THEN Trim(CommentText(toks[to]))
    ELSE Trim(CommentText(toks[from])) \o <<" ">> \o JoinRun(toks, from + 2, to)

\* C2 as stated: with line comments allowed, a node under a run of line
\* comments on consecutive lines gets their trimmed contents in source order
\* joined by single spaces, with no space in front or behind, whatever token
\* is in front of the run.
C2_RunJoinedBySingleSpaces ==
    (/\ pc = "returned"
     /\ allow_line_comments
     /\ Nearest # 0
     /\ IsLineComment(tokens[Nearest]))
        => located = Some(JoinRun(tokens, RunFirst(tokens, Nearest), Nearest))

\* the block comment the backward walk from the node can reach: every token
\* between it and the node is a line comment or a whitespace token, and no
\* two whitespace tokens are neighbours
ReachableBlocks ==
    {i \in 1..Len(tokens) :
        /\ IsBlockComment(tokens[i])
        /\ \A j \in (i + 1)..Len(tokens) :
               /\ tokens[j].kind = "TOKEN_WHITESPACE" \/ IsLineComment(tokens[j])
               /\ j < Len(tokens) =>
                      ~(/\ tokens[j].kind = "TOKEN_WHITESPACE"
                        /\ tokens[j + 1].kind = "TOKEN_WHITESPACE")}

\* C10: with line comments not allowed the result is nothing or the text of
\* the one block comment reached by walking back over line comments, each
\* at most one whitespace token apart; it is nothing when another token or
\* the start of the file comes first, and never a line comment's text.
C10_OnlyBlockCommentWithoutLineComments ==
    (pc = "returned" /\ ~allow_line_comments) =>
        IF ReachableBlocks = {} THEN located = None
        ELSE \E i \in ReachableBlocks : located = Some(CommentText(tokens[i]))

\* C10 witness: the walk went back over two line comments to a block comment.
C10_Witness ==
    /\ pc = "returned"
    /\ ~allow_line_comments
    /\ IsSome(located)
    /\ Len(tokens) >= 5
    /\ IsLineComment(tokens[Nearest])
    /\ IsLineComment(tokens[Nearest - 2])

(***************************************************************************)
(* collect_lambda_args                                                     *)
(*                                                                         *)
(* A Lambda node is [param, body]: param is None or Some of an IdentParam  *)
(* or a Pattern, body is None or Some of a node. A node that may carry a   *)
(* comment holds `before`, the file's tokens in front of its first token.  *)
(* A call that panics (an unwrap() of None) returns Panic.                 *)
(***************************************************************************)
Panic == [panic |-> TRUE]

Ok(v) == [panic |-> FALSE, val |-> v]

SingleArg(name, doc) == [name |-> name, doc |-> doc]

Flat(arg) == [tag |-> "Flat", arg |-> arg]

Pattern(args) == [tag |-> "Pattern", args |-> args]

\* the doc of a parameter: retrieve_doc_comment(node.syntax(), true)
ParamDoc(node) == retrieve_doc_comment(node.before, Len(node.before) + 1, TRUE)

\* pat.pat_entries().map(..).collect(): entry.ident().unwrap() panics on an
\* entry without identifier
RECURSIVE PatternArgs(_)
PatternArgs(pat_entries) ==
    IF pat_entries = <<>> THEN Ok(<<>>)
    ELSE LET entry == Head(pat_entries)
             rest  == PatternArgs(Tail(pat_entries))
         IN  IF ~IsSome(entry.ident) \/ rest.panic THEN Panic
             ELSE Ok(<<SingleArg(entry.ident.val, ParamDoc(entry))>> \o rest.val)

\* the argument of one Lambda: the match on lambda.param().unwrap()
LambdaArg(l) ==
    IF ~IsSome(l.param) THEN Panic
    ELSE IF l.param.val.kind = "NODE_IDENT_PARAM"
         THEN Ok(Flat(SingleArg(l.param.val.name, ParamDoc(l.param.val))))
         ELSE LET pattern_vec == PatternArgs(l.param.val.pat_entries)
              IN  IF pattern_vec.panic THEN Panic ELSE Ok(Pattern(pattern_vec.val))

\* the loop of collect_lambda_args with the argument put in front of the
\* ones collected so far
RECURSIVE CollectLoop_Prepends(_, _)
CollectLoop_Prepends(l, args) ==
    LET arg == LambdaArg(l)
    IN  IF arg.panic THEN Panic
        ELSE IF IsSome(l.body) /\ l.body.val.kind = "NODE_LAMBDA"
             THEN CollectLoop_Prepends(l.body.val, <<arg.val>> \o args)
             ELSE Ok(<<arg.val>> \o args)

\* the loop of collect_lambda_args: push the argument, go on with the body
\* when it is a Lambda
RECURSIVE CollectLoop(_, _)
CollectLoop(l, args) ==
    LET arg == LambdaArg(l)
    IN  IF arg.panic THEN Panic
        ELSE IF IsSome(l.body) /\ l.body.val.kind = "NODE_LAMBDA"
             THEN CollectLoop(l.body.val, Append(args, arg.val))
             ELSE Ok(Append(args, arg.val))

collect_lambda_args(l) == CollectLoop(l, <<>>)

(***************************************************************************)
(* The parameter collector run on its own, on the Lambda nodes of at most  *)
(* MaxCurry levels with patterns of at most MaxPatEntries entries.         *)
(***************************************************************************)
\* the tokens in front of a parameter: the delimiter alone, or the delimiter
\* and a line comment on the line above the parameter
Undocumented == <<Token("TOKEN_L_BRACE", <<"{">>)>>

LineDocumented ==
    <<Token("TOKEN_L_BRACE", <<"{">>),
      Token("TOKEN_WHITESPACE", <<" ">>),
      Token("TOKEN_COMMENT", <<"#", "a">>),
      Token("TOKEN_WHITESPACE", <<NL, " ">>)>>

IdentParam(name, before) ==
    [kind |-> "NODE_IDENT_PARAM", name |-> name, before |-> before]

PatEntry(ident, before) == [ident |-> ident, before |-> before]

PatEntries ==
    {PatEntry(Some("a"), LineDocumented), PatEntry(Some("b"), Undocumented)}

\* a pattern whose second entry has no identifier
BrokenPattern ==
    [kind |-> "NODE_PATTERN",
     pat_entries |-> <<PatEntry(Some("a"), Undocumented), PatEntry(None, Undocumented)>>]

Params ==
    {None, Some(IdentParam("a", Undocumented)), Some(IdentParam("b", LineDocumented)),
     Some(BrokenPattern)}
    \cup {Some([kind |-> "NODE_PATTERN", pat_entries |-> es]) :
             es \in SeqsUpTo(PatEntries, MaxPatEntries)}

LambdaNode(param, body) == [kind |-> "NODE_LAMBDA", param |-> param, body |-> body]

\* bodies that are no Lambda: none, an identifier, and a parenthesised Lambda
OtherBodies ==
    {None,
     Some([kind |-> "NODE_IDENT"]),
     Some([kind |-> "NODE_PAREN",
           expr |-> LambdaNode(Some(IdentParam("b", Undocumented)),
                               Some([kind |-> "NODE_IDENT"]))])}

RECURSIVE Lambdas(_)
Lambdas(depth) ==
    IF depth = 0 THEN {}
    ELSE {LambdaNode(p, b) :
             p \in Params,
             b \in OtherBodies \cup {Some(l) : l \in Lambdas(depth - 1)}}

InitLambda ==
    /\ mode = "collect_lambda_args"
    /\ pc = "call"
    /\ lambda \in Lambdas(MaxCurry)
    /\ collected = None
    /\ TextIdle
    /\ LocatorIdle
    /\ TreeIdle

CollectArgs ==
    /\ mode = "collect_lambda_args"
    /\ pc = "call"
    /\ collected' = collect_lambda_args(lambda)
    /\ pc' = "returned"
    /\ UNCHANGED <<mode, lambda, textVars, locatorVars, treeVars>>

NextLambda == CollectArgs

SpecLambda == InitLambda /\ [][NextLambda]_vars

\* the parameters of the chain of directly nested Lambdas, outer to inner
RECURSIVE ChainParams(_)
ChainParams(l) ==
    <<l.param>> \o (IF IsSome(l.body) /\ l.body.val.kind = "NODE_LAMBDA"
                    THEN ChainParams(l.body.val)
                    ELSE <<>>)

\* every function of the chain has its parameter, every pattern entry its name
ChainWellFormed(l) ==
    \A i \in 1..Len(ChainParams(l)) :
        /\ IsSome(ChainParams(l)[i])
        /\ ChainParams(l)[i].val.kind = "NODE_PATTERN" =>
               \A j \in 1..Len(ChainParams(l)[i].val.pat_entries) :
                   IsSome(ChainParams(l)[i].val.pat_entries[j].ident)

\* argument arg is the one of parameter p: Flat(name), or Pattern of the
\* entries' names in source order
ArgOfParam(arg, p) ==
    IF p.kind = "NODE_IDENT_PARAM"
    THEN arg.tag = "Flat" /\ arg.arg.name = p.name
    ELSE /\ arg.tag = "Pattern"
         /\ Len(arg.args) = Len(p.pat_entries)
         /\ \A j \in 1..Len(p.pat_entries) :
                arg.args[j].name = p.pat_entries[j].ident.val

DocItem(name, doc_comment, args) ==
    [name |-> name, comment |-> doc_comment, args |-> args]

\* str::split("\n\n")
RECURSIVE SplitParagraphs(_)
SplitParagraphs(s) ==
    IF \E i \in 1..(Len(s) - 1) : s[i] = NL /\ s[i + 1] = NL
    THEN LET i == CHOOSE k \in 1..(Len(s) - 1) :
                      /\ s[k] = NL /\ s[k + 1] = NL
                      /\ \A j \in 1..(k - 1) : ~(s[j] = NL /\ s[j + 1] = NL)
         IN  <<SubSeq(s, 1, i - 1)>> \o SplitParagraphs(SubSeq(s, i + 2, Len(s)))
    ELSE <<s>>

\* DocItem::into_entry: the ManualEntry
into_entry(item, category) ==
    [category    |-> category,
     name        |-> item.name,
     description |-> SplitParagraphs(item.comment.doc),
     fn_type     |-> item.comment.doc_type,
     example     |-> item.comment.example,
     args        |-> item.args]

\* the rest of retrieve_doc_item with attrpath().unwrap() run before the `?`
\* on the comment
ItemOfComment_UnwrapsFirst(node, c) ==
    IF ~IsSome(node.attrpath) THEN Panic
    ELSE IF ~IsSome(c) THEN Ok(None)
    ELSE Ok(Some(DocItem(node.attrpath.val, parse_doc_comment(c.val), <<>>)))

\* the rest of retrieve_doc_item with a missing comment read as an empty one
ItemOfComment_CommentOptional(node, c) ==
    IF ~IsSome(node.attrpath) THEN Panic
    ELSE Ok(Some(DocItem(node.attrpath.val, parse_doc_comment(UnwrapOrEmpty(c)), <<>>)))

\* retrieve_doc_item after its first line: `c` is what retrieve_doc_comment
\* returned, the `?` returns None, attrpath().unwrap() may panic
ItemOfComment(node, c) ==
    IF ~IsSome(c) THEN Ok(None)
    ELSE IF ~IsSome(node.attrpath) THEN Panic
    ELSE Ok(Some(DocItem(node.attrpath.val, parse_doc_comment(c.val), <<>>)))

retrieve_doc_item(node) ==
    ItemOfComment(node, retrieve_doc_comment(node.before, Len(node.before) + 1, FALSE))

\* DocItem { args: collect_lambda_args(l), ..doc_item }
ItemWithArgs(item, args) ==
    IF args.panic THEN Panic
    ELSE Ok(Some(DocItem(item.name, item.comment, args.val)))

\* collect_entry_information after its first line: `doc_item` is what
\* retrieve_doc_item returned
EntryOfItem(entry, doc_item) ==
    IF doc_item.panic THEN Panic
    ELSE IF ~IsSome(doc_item.val) THEN Ok(None)
    ELSE IF IsSome(entry.value) /\ entry.value.val.kind = "NODE_LAMBDA"
         THEN ItemWithArgs(doc_item.val.val, collect_lambda_args(entry.value.val))
    ELSE doc_item

collect_entry_information(entry) == EntryOfItem(entry, retrieve_doc_item(entry))

(***************************************************************************)
(* collect_bindings and collect_entries                                    *)
(***************************************************************************)
Category == "c"

\* HashMap::get(..).cloned()
ScopeGet(map, key) == IF key \in DOMAIN map THEN Some(map[key]) ELSE None

\* HashMap::insert by collect(): a later binding of a name replaces the
\* earlier one
ScopeInsert(map, key, value) == (key :> value) @@ map

\* the entries of an `inherit` with the entry found rebuilt from its name
\* alone
RECURSIVE InheritEntries_NameOnly(_, _)
InheritEntries_NameOnly(attrs, map) ==
    IF attrs = <<>> THEN <<>>
    ELSE LET a     == Head(attrs)
             found == IF a.kind = "NODE_IDENT" THEN ScopeGet(map, a.text) ELSE None
         IN  (IF IsSome(found)
              THEN <<[found.val EXCEPT !.args = <<>>, !.fn_type = None]>>
              ELSE <<>>)
             \o InheritEntries_NameOnly(Tail(attrs), map)

\* inh.attrs().filter_map(..): the scope's entry of every identifier
RECURSIVE InheritEntries(_, _)
InheritEntries(attrs, map) ==
    IF attrs = <<>> THEN <<>>
    ELSE LET a     == Head(attrs)
             found == IF a.kind = "NODE_IDENT" THEN ScopeGet(map, a.text) ELSE None
         IN  (IF IsSome(found) THEN <<found.val>> ELSE <<>>)
             \o InheritEntries(Tail(attrs), map)

\* the step of collect_bindings on an Inherit child with `from` not looked at
InheritStep_FromIgnored(inh, map) == InheritEntries(inh.attrs, map)

\* the step of collect_bindings on an Inherit child
InheritStep(inh, map) ==
    IF IsSome(inh.from) THEN <<>> ELSE InheritEntries(inh.attrs, map)

\* whether the preorder walk of collect_bindings over a node meets an
\* attribute set
HasAttrSet(n) ==
    \/ n.kind = "NODE_ATTR_SET"
    \/ n.kind = "NODE_BIN_OP" /\ n.rhs.kind = "NODE_ATTR_SET"

(***************************************************************************)
(* collect_entries on a file, its nodes met one after the other: the walk  *)
(* to the first let-in or attribute set, the children of the let-in, the   *)
(* children of the attribute set.                                          *)
(***************************************************************************)
IdentNode == [kind |-> "NODE_IDENT"]

AttrSetNode == [kind |-> "NODE_ATTR_SET"]

AttrpathValue(attrpath, value, before) ==
    [kind |-> "NODE_ATTRPATH_VALUE", attrpath |-> attrpath, value |-> value,
     before |-> before]

Inherit(from, attrs) == [kind |-> "NODE_INHERIT", from |-> from, attrs |-> attrs]

Attr(kind, text) == [kind |-> kind, text |-> text]

\* /*d*/ on the line above the node
BlockDocumented ==
    <<Token("TOKEN_SEMICOLON", <<";">>),
      Token("TOKEN_WHITESPACE", <<NL, " ">>),
      Token("TOKEN_COMMENT", <<"/", "*", "d", "*", "/">>),
      Token("TOKEN_WHITESPACE", <<NL, " ">>)>>

\* a block comment with two paragraphs and a type, then a line comment
BlockThenLineDocumented ==
    <<Token("TOKEN_SEMICOLON", <<";">>),
      Token("TOKEN_WHITESPACE", <<NL, " ">>),
      Token("TOKEN_COMMENT",
            <<"/", "*", "e", NL, NL, "e", NL>> \o TypeKeyword \o <<"t", "*", "/">>),
      Token("TOKEN_WHITESPACE", <<NL, " ">>),
      Token("TOKEN_COMMENT", <<"#", "a">>),
      Token("TOKEN_WHITESPACE", <<NL, " ">>)>>

\* the function `a: x`
SimpleLambda == LambdaNode(Some(IdentParam("a", Undocumented)), Some(IdentNode))

\* a binding with a line comment only: not documented
LineCommented == AttrpathValue(Some("h"), Some(IdentNode), LineDocumented)

\* documented bindings with a child missing: the attribute path, the
\* parameter of the inner function, the identifier of a pattern entry
BrokenBindings ==
    {AttrpathValue(None, Some(IdentNode), BlockDocumented),
     AttrpathValue(Some("g"),
                   Some(LambdaNode(Some(IdentParam("a", Undocumented)),
                                   Some(LambdaNode(None, Some(IdentNode))))),
                   BlockDocumented),
     AttrpathValue(Some("g"), Some(LambdaNode(Some(BrokenPattern), Some(IdentNode))),
                   BlockDocumented)}

\* the children a let-in of the model can have
LetChildren ==
    {AttrpathValue(Some("f"), None, BlockDocumented),
     AttrpathValue(Some("f"), Some(SimpleLambda), BlockThenLineDocumented),
     LineCommented,
     Inherit(None, <<Attr("NODE_IDENT", "f")>>)}
    \cup BrokenBindings

\* the children an attribute set of the model can have
SetChildren ==
    {AttrpathValue(Some("g"), Some(SimpleLambda), BlockDocumented),
     LineCommented,
     AttrpathValue(None, Some(LambdaNode(None, None)), Undocumented),
     Inherit(None, <<Attr("NODE_IDENT", "f")>>),
     Inherit(None, <<Attr("NODE_IDENT", "g"), Attr("NODE_STRING", "f"),
                     Attr("NODE_IDENT", "f")>>),
     Inherit(Some(IdentNode), <<Attr("NODE_IDENT", "f")>>)}
    \cup BrokenBindings

\* the bodies a let-in of the model can have
LetBodies ==
    {AttrSetNode, IdentNode,
     [kind |-> "NODE_BIN_OP", lhs |-> IdentNode, rhs |-> AttrSetNode]}

InitTree ==
    /\ mode = "collect_entries"
    /\ pc = "walk"
    /\ TreeIdle
    /\ TextIdle
    /\ LocatorIdle
    /\ LambdaIdle

\* the walk meets a let-in first: LetIn::cast(n).unwrap().body().unwrap()
EnterLetIn(has_body) ==
    /\ pc = "walk"
    /\ root' = Some([kind |-> "NODE_LET_IN", has_body |-> has_body])
    /\ pc' = IF has_body THEN "let_header" ELSE "panic"
    /\ UNCHANGED <<mode, header, children, scope, entries,
                   textVars, locatorVars, lambdaVars>>

\* the walk meets an attribute set first: collect_bindings with no scope
EnterAttrSet ==
    /\ pc = "walk"
    /\ root' = Some(AttrSetNode)
    /\ pc' = "set"
    /\ UNCHANGED <<mode, header, children, scope, entries,
                   textVars, locatorVars, lambdaVars>>

\* the walk ends without either: vec![]
NothingToScan ==
    /\ pc = "walk"
    /\ pc' = "done"
    /\ UNCHANGED <<mode, treeVars, textVars, locatorVars, lambdaVars>>

\* the scope with what collect_entry_information returned for a binding
IntoScope(map, info) ==
    IF info.panic \/ ~IsSome(info.val) THEN map
    ELSE ScopeInsert(map, info.val.val.name, into_entry(info.val.val, Category))

\* filter_map(AttrpathValue::cast).filter_map(collect_entry_information) on
\* one child of the let-in
LetChildInformation(child) ==
    IF child.kind = "NODE_ATTRPATH_VALUE" THEN collect_entry_information(child)
    ELSE Ok(None)

LetChildEffect(info) ==
    /\ pc' = IF info.panic THEN "panic" ELSE pc
    /\ scope' = IntoScope(scope, info)

\* one child of the let-in through filter_map(AttrpathValue::cast),
\* filter_map(collect_entry_information) and map(..) into the scope
ScanLetChild(child) ==
    /\ pc = "let_header"
    /\ Len(header) < MaxLetBindings
    /\ header' = Append(header, child)
    /\ LetChildEffect(LetChildInformation(child))
    /\ UNCHANGED <<mode, root, children, entries, textVars, locatorVars, lambdaVars>>

\* collect_bindings walks the let-in's body to its first attribute set
EnterBody(body) ==
    /\ pc = "let_header"
    /\ pc' = IF HasAttrSet(body) THEN "set" ELSE "done"
    /\ UNCHANGED <<mode, treeVars, textVars, locatorVars, lambdaVars>>

\* entries.extend(collect_entry_information(apv).map(|di| di.into_entry(..)))
ExtendWithInformation(list, info) ==
    IF info.panic \/ ~IsSome(info.val) THEN list
    ELSE Append(list, into_entry(info.val.val, Category))

BindingEffect(info) ==
    /\ pc' = IF info.panic THEN "panic" ELSE pc
    /\ entries' = ExtendWithInformation(entries, info)

\* one child of the attribute set in the loop of collect_bindings
ScanSetChild(child) ==
    /\ pc = "set"
    /\ Len(children) < MaxSetChildren
    /\ children' = Append(children, child)
    /\ IF child.kind = "NODE_ATTRPATH_VALUE"
       THEN BindingEffect(collect_entry_information(child))
       ELSE /\ pc' = pc
            /\ entries' = entries \o InheritStep(child, scope)
    /\ UNCHANGED <<mode, root, header, scope, textVars, locatorVars, lambdaVars>>

\* the end of the children: return entries
ReturnEntries ==
    /\ pc = "set"
    /\ pc' = "done"
    /\ UNCHANGED <<mode, treeVars, textVars, locatorVars, lambdaVars>>

NextTree ==
    \/ \E has_body \in BOOLEAN : EnterLetIn(has_body)
    \/ EnterAttrSet
    \/ NothingToScan
    \/ \E child \in LetChildren : ScanLetChild(child)
    \/ \E body \in LetBodies : EnterBody(body)
    \/ \E child \in SetChildren : ScanSetChild(child)
    \/ ReturnEntries

SpecTree == InitTree /\ [][NextTree]_vars

\* retrieve_doc_comment with line comments disallowed finds a comment for b
Documented(b) ==
    IsSome(retrieve_doc_comment(b.before, Len(b.before) + 1, FALSE))

\* the node met last: a child of the set, of the let-in, or the root itself
LastVisited ==
    IF children # <<>> THEN children[Len(children)]
    ELSE IF header # <<>> THEN header[Len(header)]
    ELSE root.val

\* a function of the chain of directly nested functions has no parameter
ChainLacksParam(l) == \E i \in 1..Len(ChainParams(l)) : ~IsSome(ChainParams(l)[i])

\* the two conditions the claim names: a binding without attribute path, a
\* function without formal parameter
NamedFailure(n) ==
    /\ n.kind = "NODE_ATTRPATH_VALUE"
    /\ \/ ~IsSome(n.attrpath)
       \/ /\ IsSome(n.value)
          /\ n.value.val.kind = "NODE_LAMBDA"
          /\ ChainLacksParam(n.value.val)

\* C5 as stated: extraction aborts only on a function without formal
\* parameter or a binding without attribute path; any other shape, any
\* other missing child included, completes normally.
C5_OnlyTwoHardFailures ==
    pc = "panic" => NamedFailure(LastVisited)

\* the shapes on which extraction aborts
FailingShape(n) ==
    \/ n.kind = "NODE_LET_IN" /\ ~n.has_body
    \/ /\ n.kind = "NODE_ATTRPATH_VALUE"
       /\ Documented(n)
       /\ \/ ~IsSome(n.attrpath)
          \/ /\ IsSome(n.value)
             /\ n.value.val.kind = "NODE_LAMBDA"
             /\ ~ChainWellFormed(n.value.val)

\* C5 amended: extraction aborts exactly on a let-in without body and on a
\* documented binding that has no attribute path or whose function value has,
\* along its chain of directly nested functions, a function without
\* parameter or a pattern entry without identifier; every other shape,
\* undocumented bindings with those defects included, completes normally.
C5_HardFailuresAreFour ==
    (pc = "panic") <=> (IsSome(root) /\ FailingShape(LastVisited))

\* C5 witness: after an entry was collected, a documented binding whose
\* pattern has an entry without identifier aborted the extraction.
C5_Witness ==
    /\ pc = "panic"
    /\ entries # <<>>
    /\ LastVisited.kind = "NODE_ATTRPATH_VALUE"
    /\ IsSome(LastVisited.attrpath)
    /\ ~ChainLacksParam(LastVisited.value.val)

\* the documented bindings of the let-in, in source order
LetSites ==
    SelectSeq(header, LAMBDA b : /\ b.kind = "NODE_ATTRPATH_VALUE"
                                 /\ Documented(b)
                                 /\ IsSome(b.attrpath))

LetDocumentedNames == {LetSites[k].attrpath.val : k \in 1..Len(LetSites)}

\* the entry extracted at the (last) let-binding site of a name
LetSiteEntry(name) ==
    LET k == CHOOSE k \in 1..Len(LetSites) :
                 /\ LetSites[k].attrpath.val = name
                 /\ \A m \in (k + 1)..Len(LetSites) : LetSites[m].attrpath.val # name
    IN  into_entry(collect_entry_information(LetSites[k]).val.val, Category)

\* the identifiers of an inherit clause that the let-in documents
InheritedNames(inh) ==
    SelectSeq(inh.attrs, LAMBDA a : a.kind = "NODE_IDENT" /\ a.text \in LetDocumentedNames)

\* how many entries a child of the set stands for
EntryCount(c) ==
    IF c.kind = "NODE_ATTRPATH_VALUE" THEN (IF Documented(c) THEN 1 ELSE 0)
    ELSE IF IsSome(c.from) THEN 0
    ELSE Len(InheritedNames(c))

\* the number of entries of the children in front of child i
RECURSIVE Offset(_)
Offset(i) == IF i <= 1 THEN 0 ELSE Offset(i - 1) + EntryCount(children[i - 1])

\* C6: for a let-in that binds a documented name and a set holding
\* `inherit <name>;` without source namespace, the entries hold, at the place
\* of the inherit clause among the set's children, an entry of that name
\* with the description, type, example and args extracted at the let site.
C6_InheritedEntryIsTheLetSiteEntry ==
    pc \in {"set", "done"} =>
        \A i \in 1..Len(children) :
            (children[i].kind = "NODE_INHERIT" /\ ~IsSome(children[i].from)) =>
                \A j \in 1..Len(InheritedNames(children[i])) :
                    /\ Offset(i) + j <= Len(entries)
                    /\ entries[Offset(i) + j] =
                           LetSiteEntry(InheritedNames(children[i])[j].text)

\* C6 witness: `let /* .. */ f = ..; /* .. */ f = a: ..; in { g = ..;
\* inherit f; }`: the entry of f follows the one of g and has the argument.
C6_Witness ==
    /\ pc = "done"
    /\ Len(LetSites) = 2
    /\ Len(children) = 2
    /\ children[1].kind = "NODE_ATTRPATH_VALUE"
    /\ children[2] = Inherit(None, <<Attr("NODE_IDENT", "f")>>)
    /\ Len(entries) = 2
    /\ entries[2].name = "f"
    /\ entries[2].args # <<>>
    /\ IsSome(entries[2].fn_type)

\* the identifiers of an inherit clause that the scope holds
RECURSIVE ScopedIdents(_)
ScopedIdents(attrs) ==
    IF attrs = <<>> THEN 0
    ELSE (IF Head(attrs).kind = "NODE_IDENT" /\ Head(attrs).text \in DOMAIN scope
          THEN 1 ELSE 0)
         + ScopedIdents(Tail(attrs))

\* the entries the children stand for when an inherit clause with a source
\* namespace gives none, and one without gives one per identifier in scope
RECURSIVE EntriesDue(_)
EntriesDue(cs) ==
    IF cs = <<>> THEN 0
    ELSE (IF Head(cs).kind = "NODE_ATTRPATH_VALUE"
          THEN (IF Documented(Head(cs)) THEN 1 ELSE 0)
          ELSE IF IsSome(Head(cs).from) THEN 0
          ELSE ScopedIdents(Head(cs).attrs))
         + EntriesDue(Tail(cs))

\* C7: an inherit clause with a source namespace adds no entry for any of
\* its names, even for a name in the scope; a key that is no identifier
\* never adds one.
C7_InheritFromAddsNothing ==
    pc \in {"set", "done"} => Len(entries) = EntriesDue(children)

\* C7 witness: f is in the scope, and the set holds `inherit (x) f;` and an
\* inherit clause with a string key, which gave entries for its identifiers.
C7_Witness ==
    /\ pc = "done"
    /\ "f" \in DOMAIN scope
    /\ \E i \in 1..Len(children) :
           children[i].kind = "NODE_INHERIT" /\ IsSome(children[i].from)
    /\ \E i \in 1..Len(children) :
           /\ children[i].kind = "NODE_INHERIT"
           /\ \E j \in 1..Len(children[i].attrs) : children[i].attrs[j].kind = "NODE_STRING"
    /\ entries # <<>>

\* the bindings met so far, in the set and in the let-in
BindingsMet ==
    {children[i] : i \in {k \in 1..Len(children) : children[k].kind = "NODE_ATTRPATH_VALUE"}}
    \cup {header[i] : i \in {k \in 1..Len(header) : header[k].kind = "NODE_ATTRPATH_VALUE"}}

\* the description the comment of binding b gives
DescriptionOf(b) ==
    SplitParagraphs(parse_doc_comment(
        retrieve_doc_comment(b.before, Len(b.before) + 1, FALSE).val).doc)

\* C8: every entry, of a direct binding of the set or resolved through an
\* inherit clause, comes from a binding for which retrieve_doc_comment with
\* line comments disallowed returned a comment.
C8_EveryEntryIsDocumented ==
    \A i \in 1..Len(entries) :
        \E b \in BindingsMet :
            /\ Documented(b)
            /\ b.attrpath = Some(entries[i].name)
            /\ entries[i].description = DescriptionOf(b)

\* C8 witness: the set holds a binding with a line comment only and an
\* inherit clause; the entries are the inherited one alone.
C8_Witness ==
    /\ pc = "done"
    /\ Len(children) = 2
    /\ children[1].kind = "NODE_ATTRPATH_VALUE"
    /\ IsSome(children[1].attrpath)
    /\ ~Documented(children[1])
    /\ children[2].kind = "NODE_INHERIT"
    /\ Len(entries) = 1

====
